---- MODULE Spec2Model ----
(***************************************************************************)
(* A model of descript2-memcached (src/index.js): the DescriptMemcached    *)
(* adapter, its process-wide POOL of transport clients, and its get and    *)
(* set operations with the read deadline.                                  *)
(*                                                                         *)
(* JavaScript values are tagged tuples: <<"undefined">>, <<"null">>,       *)
(* <<"number", n>>, <<"string", s>>, <<"object", pairs>> with pairs the    *)
(* own properties in insertion order, <<"circular">> for an object that    *)
(* contains itself, and <<"function">>.                                    *)
(***************************************************************************)
EXTENDS Integers, Sequences, FiniteSets, TLC

\* Bounds of the model.
MaxAdapters == 2
MaxCalls == 2

-----------------------------------------------------------------------------
\* JavaScript values

Undefined == <<"undefined">>
Null == <<"null">>
Bool(b) == <<"boolean", b>>
Num(n) == <<"number", n>>
Str(s) == <<"string", s>>
Obj(pairs) == <<"object", pairs>>
Circular == <<"circular">>
Fn == <<"function">>

Tag(v) == v[1]

\* The property names of an object, and the value of one (undefined when the
\* object has no such property).
Names(o) == {o[2][i][1] : i \in 1..Len(o[2])}
Prop(o, name) ==
    IF name \in Names(o)
    THEN LET i == CHOOSE j \in 1..Len(o[2]) : o[2][j][1] = name IN o[2][i][2]
    ELSE Undefined

\* A thrown exception and a returned value, as the result of a call that may throw.
Threw(what) == [threw |-> TRUE, value |-> Str(what)]
Returned(v) == [threw |-> FALSE, value |-> v]

\* JSON.stringify: undefined and functions give undefined (and are left out
\* of an object), a circular structure throws, an object is rendered in the
\* insertion order of its properties. The result is a JavaScript string, or
\* undefined.
RECURSIVE JSONstringify(_)
RECURSIVE StringifyMembers(_, _, _)
StringifyMembers(pairs, i, first) ==
    IF i > Len(pairs) THEN Returned(Str(""))
    ELSE LET v == JSONstringify(pairs[i][2]) IN
         IF v.threw THEN v
         ELSE IF Tag(v.value) = "undefined" THEN StringifyMembers(pairs, i + 1, first)
         ELSE LET rest == StringifyMembers(pairs, i + 1, FALSE) IN
              IF rest.threw THEN rest
              ELSE Returned(Str((IF first THEN "" ELSE ",") \o "\"" \o pairs[i][1]
                                \o "\":" \o v.value[2] \o rest.value[2]))
JSONstringify(v) ==
    CASE Tag(v) = "undefined" -> Returned(Undefined)
      [] Tag(v) = "function" -> Returned(Undefined)
      [] Tag(v) = "circular" -> Threw("TypeError: Converting circular structure to JSON")
      [] Tag(v) = "null" -> Returned(Str("null"))
      [] Tag(v) = "boolean" -> Returned(Str(IF v[2] THEN "true" ELSE "false"))
      [] Tag(v) = "number" -> Returned(Str(ToString(v[2])))
      [] Tag(v) = "string" -> Returned(Str("\"" \o v[2] \o "\""))
      [] Tag(v) = "object" ->
            LET m == StringifyMembers(v[2], 1, TRUE) IN
            IF m.threw THEN m ELSE Returned(Str("{" \o m.value[2] \o "}"))

\* The values JSON.parse can give for the texts of the model, and JSON.parse
\* of a text: the value whose JSON text it is, a SyntaxError for any other.
JSONValues == {Null, Num(0), Num(42), Str("s"), Obj(<<>>), Obj(<< <<"a", Num(1)>> >>)}
JSONparse(text) ==
    IF \E v \in JSONValues : JSONstringify(v).value[2] = text
    THEN Returned(CHOOSE v \in JSONValues : JSONstringify(v).value[2] = text)
    ELSE Threw("SyntaxError: Unexpected token in JSON")

\* Template-literal conversion of a value to a string, `${ v }`.
TemplateString(v) ==
    CASE Tag(v) = "undefined" -> "undefined"
      [] Tag(v) = "null" -> "null"
      [] Tag(v) = "boolean" -> IF v[2] THEN "true" ELSE "false"
      [] Tag(v) = "number" -> ToString(v[2])
      [] Tag(v) = "string" -> v[2]
      [] OTHER -> "[object Object]"

\* JavaScript truthiness of a transport response field.
Truthy(v) ==
    CASE Tag(v) = "undefined" -> FALSE
      [] Tag(v) = "null" -> FALSE
      [] Tag(v) = "boolean" -> v[2]
      [] Tag(v) = "string" -> v[2] # ""
      [] Tag(v) = "number" -> v[2] # 0
      [] OTHER -> TRUE

\* Object.assign(target, source): every own property of source is set on
\* target, in place when target has it, appended otherwise.
RECURSIVE AssignPairs(_, _, _)
AssignPairs(target, source, i) ==
    IF i > Len(source) THEN target
    ELSE LET n == source[i][1]
             t == IF \E j \in 1..Len(target) : target[j][1] = n
                  THEN [j \in 1..Len(target) |->
                          IF target[j][1] = n THEN source[i] ELSE target[j]]
                  ELSE Append(target, source[i])
         IN AssignPairs(t, source, i + 1)
ObjectAssign(target, source) ==
    IF Tag(source) = "object" THEN Obj(AssignPairs(target[2], source[2], 1)) ELSE target

-----------------------------------------------------------------------------
\* DescriptMemcached.EVENT

EVENT == [
    MEMCACHED_INITIALIZED |-> "MEMCACHED_INITIALIZED",
    MEMCACHED_JSON_PARSING_FAILED |-> "MEMCACHED_JSON_PARSING_FAILED",
    MEMCACHED_JSON_STRINGIFY_FAILED |-> "MEMCACHED_JSON_STRINGIFY_FAILED",
    MEMCACHED_READ_DONE |-> "MEMCACHED_READ_DONE",
    MEMCACHED_READ_ERROR |-> "MEMCACHED_READ_ERROR",
    MEMCACHED_READ_KEY_NOT_FOUND |-> "MEMCACHED_READ_KEY_NOT_FOUND",
    MEMCACHED_READ_START |-> "MEMCACHED_READ_START",
    MEMCACHED_READ_TIMEOUT |-> "MEMCACHED_READ_TIMEOUT",
    MEMCACHED_WRITE_DONE |-> "MEMCACHED_WRITE_DONE",
    MEMCACHED_WRITE_ERROR |-> "MEMCACHED_WRITE_ERROR",
    MEMCACHED_WRITE_FAILED |-> "MEMCACHED_WRITE_FAILED",
    MEMCACHED_WRITE_START |-> "MEMCACHED_READ_START"]

EventNames == DOMAIN EVENT

-----------------------------------------------------------------------------
\* Inputs

\* The configuration objects a caller may pass: the same configuration with
\* its properties set in either order, one that differs in servers, one that
\* differs in generation, one without servers.
Options(pairs) == Obj([i \in 1..Len(pairs) |->
                         <<pairs[i][1],
                           IF pairs[i][1] = "servers" THEN Str(pairs[i][2])
                           ELSE Num(pairs[i][2])>>])
OptionObjects ==
    {Options(<< <<"servers", "h1">>, <<"generation", 1>> >>),
     Options(<< <<"generation", 1>>, <<"servers", "h1">> >>),
     Options(<< <<"servers", "h2">>, <<"generation", 1>> >>),
     Options(<< <<"servers", "h1">>, <<"generation", 2>> >>),
     Options(<< <<"generation", 1>> >>)}
OptionArguments == OptionObjects \cup {Undefined}

\* The logging collaborator handed to the constructor: none, one whose log
\* returns, one whose log may throw on any event it is handed.
Loggers == {"absent", "returns"}
AnyLoggers == Loggers \cup {"throws"}

Keys == {Str("user:42")}
Values == {Undefined, Obj(<< <<"a", Num(1)>> >>), Circular, Fn}
MaxAges == {Undefined, Num(30)}

\* What the transport client may hand to a callback.
TransportErrors == {Undefined, Obj(<< <<"message", Str("connection lost")>> >>)}
TransportData == {Undefined, Str(""), Str("not-json"), Str("{\"a\":1}")}
TransportDone == {Undefined, Bool(FALSE), Bool(TRUE)}

-----------------------------------------------------------------------------
VARIABLES
    POOL,       \* the module-level pool: configuration fingerprint -> client
    clients,    \* the Memcached instances created, by their constructor arguments
    adapters,   \* the constructions of DescriptMemcached, with the events of each
    calls,      \* the get and set invocations, with the events of each
    transport   \* the requests issued to the transport clients

vars == <<POOL, clients, adapters, calls, transport>>

Init ==
    /\ POOL = [k \in {} |-> 0]
    /\ clients = <<>>
    /\ adapters = <<>>
    /\ calls = <<>>
    /\ transport = <<>>

-----------------------------------------------------------------------------
\* Helpers of the adapter

\* The defaults the constructor merges the options into.
DefaultOptions ==
    Obj(<< <<"defaultKeyTTL", Num(86400)>>, <<"generation", Num(1)>>,
           <<"readTimeout", Num(100)>>, <<"memcachedOptions", Obj(<<>>)>> >>)

\* A digest of the key alone, whatever the generation.
normalizeKeyNoGeneration(options, key) ==
    Str("sha512(" \o "g" \o ":" \o TemplateString(key) \o ")")

\* normalizeKey: the SHA-512 hex digest of `g${ generation }:${ key }`. The
\* digest is kept as the text it was computed from (a digest is taken to be
\* collision-free), wrapped so that it is never the text itself.
normalizeKey(options, key) ==
    Str("sha512(" \o "g" \o TemplateString(Prop(options, "generation")) \o ":"
        \o TemplateString(key) \o ")")

\* _log: the event goes to logger.log when there is a logger; logger.log may
\* throw, and _log does not catch. fault says whether this call of logger.log
\* throws, which only a logger that throws can do.
LogThrows(logger, fault) == logger = "throws" /\ fault
MayThrow(logger, fault) == fault => logger = "throws"
Delivered(logger) == logger # "absent"

\* An event handed to _log (the timers are durations, left out).
Event(type, logger, key, normalizedKey, data, error, options) ==
    [type |-> type, delivered |-> Delivered(logger), key |-> key,
     normalizedKey |-> normalizedKey, data |-> data, error |-> error,
     options |-> options]

\* de.error({ id }), the failure a call is rejected with.
DeError(id) == Obj(<< <<"id", Str(id)>> >>)
Resolve(v) == [kind |-> "resolve", value |-> v]
Reject(v) == [kind |-> "reject", value |-> v]
LoggerException == Str("exception thrown by logger.log")

-----------------------------------------------------------------------------
\* new DescriptMemcached(options, logger)

\* One POOL key for every configuration.
OptionsKeyConstant(options) == "options"

\* The POOL key: JSON.stringify(options), used as a property name.
OptionsKey(options) == TemplateString(JSONstringify(options).value)

Construct(options, logger, fault) ==
    /\ Len(adapters) < MaxAdapters
    /\ MayThrow(logger, fault)
    /\ LET merged == ObjectAssign(DefaultOptions, options)
           optionsKey == OptionsKey(options)
           known == optionsKey \in DOMAIN POOL
           \* options.servers of an undefined options is a TypeError
           typeError == ~known /\ Tag(options) # "object"
           create == ~known /\ ~typeError
           client == IF known THEN POOL[optionsKey] ELSE Len(clients) + 1
           threw == typeError \/ (create /\ LogThrows(logger, fault))
       IN /\ clients' = IF create
                        THEN Append(clients,
                                 [servers |-> Prop(options, "servers"),
                                  options |-> Prop(options, "memcachedOptions")])
                        ELSE clients
          /\ POOL' = IF create
                     THEN [k \in DOMAIN POOL \cup {optionsKey} |->
                             IF k = optionsKey THEN client ELSE POOL[k]]
                     ELSE POOL
          /\ adapters' = Append(adapters,
                 [options |-> options, _options |-> merged, _logger |-> logger,
                  _client |-> IF threw THEN 0 ELSE client, threw |-> threw,
                  events |-> IF create
                             THEN <<Event(EVENT.MEMCACHED_INITIALIZED, logger, Undefined,
                                          Undefined, Undefined, Undefined, options)>>
                             ELSE <<>>])
    /\ UNCHANGED <<calls, transport>>

\* The adapters whose construction returned.
Constructed == {a \in 1..Len(adapters) : ~adapters[a].threw}

-----------------------------------------------------------------------------
\* The calls and the transport

\* A call: the arguments, what the invocation returned (a promise or
\* undefined), the deadline timer (none, armed, fired, cleared), the isTimeout
\* flag, the resolve/reject calls made on the promise and the events handed to
\* _log, each in order.
Call(op, a, key, value, maxage, promise, timer, settles, events) ==
    [op |-> op, adapter |-> a, key |-> key,
     normalizedKey |-> normalizeKey(adapters[a]._options, key),
     value |-> value, maxage |-> maxage, promise |-> promise, timer |-> timer,
     isTimeout |-> FALSE, settles |-> settles, events |-> events]

\* A request issued to a transport client, waiting for its callback or done.
Request(client, call, op, key, value, ttl) ==
    [client |-> client, call |-> call, op |-> op, key |-> key, value |-> value,
     ttl |-> ttl, done |-> FALSE]

\* The pending request of a call, and the requests with one completed.
Pending(c, op) ==
    {r \in 1..Len(transport) :
        transport[r].call = c /\ transport[r].op = op /\ ~transport[r].done}
CompleteAndRetry(r) ==
    Append([transport EXCEPT ![r].done = TRUE], [transport[r] EXCEPT !.done = FALSE])
Complete(r) == [transport EXCEPT ![r].done = TRUE]

-----------------------------------------------------------------------------
\* get({ key, context })

\* A set that arms the deadline as get does.
AnyOpHasDeadline(op) == TRUE

\* Whether an operation arms a deadline timer: get does (setTimeout with
\* readTimeout), set does not.
HasDeadline(op) == op = "get"

Get(a, key, fault) ==
    /\ Len(calls) < MaxCalls
    /\ a \in Constructed
    /\ MayThrow(adapters[a]._logger, fault)
    /\ LET ad == adapters[a]
           c == Len(calls) + 1
           nk == normalizeKey(ad._options, key)
           start == Event(EVENT.MEMCACHED_READ_START, ad._logger, key, nk,
                          Undefined, Undefined, Undefined)
       IN IF LogThrows(ad._logger, fault)
          THEN \* the executor throws: the promise is rejected with the exception
               /\ calls' = Append(calls, Call("get", a, key, Undefined, Undefined, TRUE,
                                              "none", <<Reject(LoggerException)>>,
                                              <<start>>))
               /\ UNCHANGED transport
          ELSE /\ calls' = Append(calls, Call("get", a, key, Undefined, Undefined, TRUE,
                                      IF HasDeadline("get") THEN "armed" ELSE "none",
                                      <<>>, <<start>>))
               /\ transport' = Append(transport,
                      Request(ad._client, c, "get", nk, Undefined, Undefined))
    /\ UNCHANGED <<POOL, clients, adapters>>

\* A timer callback that leaves the flag unset.
TimerFlagUnset == FALSE

\* What the timer callback leaves in isTimeout.
TimerFlag == TRUE

\* The deadline timer fires.
Timeout(c, fault) ==
    /\ c \in 1..Len(calls)
    /\ calls[c].timer = "armed"
    /\ MayThrow(adapters[calls[c].adapter]._logger, fault)
    /\ LET call == calls[c]
           logger == adapters[call.adapter]._logger
       IN calls' = [calls EXCEPT
              ![c].isTimeout = TimerFlag,
              ![c].timer = "fired",
              ![c].events = Append(@, Event(EVENT.MEMCACHED_READ_TIMEOUT, logger, call.key,
                                call.normalizedKey, Undefined, Undefined, Undefined)),
              ![c].settles = IF LogThrows(logger, fault) THEN @
                             ELSE Append(@, Reject(DeError(EVENT.MEMCACHED_READ_TIMEOUT)))]
    /\ UNCHANGED <<POOL, clients, adapters, transport>>

\* A transport callback without the isTimeout guard.
IgnoresNothing(call) == FALSE

\* One isTimeout flag shared by the calls.
IgnoresResponseShared(call) == \E d \in 1..Len(calls) : calls[d].isTimeout

\* Whether the transport callback of a get returns at once.
IgnoresResponse(call) == call.isTimeout

\* A transport callback that looks at the data before the error.
ReadOutcomeDataFirst(error, data) ==
    IF ~Truthy(data) THEN EVENT.MEMCACHED_READ_KEY_NOT_FOUND
    ELSE IF Truthy(error) THEN EVENT.MEMCACHED_READ_ERROR
    ELSE IF JSONparse(TemplateString(data)).threw THEN EVENT.MEMCACHED_JSON_PARSING_FAILED
    ELSE EVENT.MEMCACHED_READ_DONE

\* The outcome of a transport response to a get, by the event it is logged as.
ReadOutcome(error, data) ==
    IF Truthy(error) THEN EVENT.MEMCACHED_READ_ERROR
    ELSE IF ~Truthy(data) THEN EVENT.MEMCACHED_READ_KEY_NOT_FOUND
    ELSE IF JSONparse(TemplateString(data)).threw THEN EVENT.MEMCACHED_JSON_PARSING_FAILED
    ELSE EVENT.MEMCACHED_READ_DONE

\* A transport callback that rejects every failure with the id of READ_ERROR.
ReadSettleOneId(outcome, data) ==
    IF outcome = EVENT.MEMCACHED_READ_DONE
    THEN Resolve(JSONparse(TemplateString(data)).value)
    ELSE Reject(DeError(EVENT.MEMCACHED_READ_ERROR))

\* The event of an outcome of get, and the resolve or reject call that follows it.
ReadEvent(outcome, logger, call, error, data) ==
    Event(outcome, logger, call.key, call.normalizedKey,
          IF outcome \in {EVENT.MEMCACHED_JSON_PARSING_FAILED, EVENT.MEMCACHED_READ_DONE}
          THEN data ELSE Undefined,
          IF outcome = EVENT.MEMCACHED_READ_ERROR THEN error
          ELSE IF outcome = EVENT.MEMCACHED_JSON_PARSING_FAILED
          THEN JSONparse(TemplateString(data)).value
          ELSE Undefined,
          Undefined)
ReadSettle(outcome, data) ==
    IF outcome = EVENT.MEMCACHED_READ_DONE
    THEN Resolve(JSONparse(TemplateString(data)).value)
    ELSE Reject(DeError(outcome))

\* A transport callback that leaves the deadline timer armed.
clearTimeoutForgotten(timer) == timer

\* clearTimeout(timer): an armed timer is cleared and will not fire.
clearTimeout(timer) == IF timer = "armed" THEN "cleared" ELSE timer

\* The transport client calls the callback of a get with (error, data).
GetCallback(c, error, data, fault) ==
    /\ c \in 1..Len(calls)
    /\ Pending(c, "get") # {}
    /\ MayThrow(adapters[calls[c].adapter]._logger, fault)
    /\ (fault => ~calls[c].isTimeout)
    /\ LET call == calls[c]
           logger == adapters[call.adapter]._logger
           r == CHOOSE r \in Pending(c, "get") : TRUE
           outcome == ReadOutcome(error, data)
       IN /\ transport' = Complete(r)
          /\ IF IgnoresResponse(call)
             THEN UNCHANGED calls
             ELSE calls' = [calls EXCEPT
                      ![c].timer = clearTimeout(@),
                      ![c].events = Append(@, ReadEvent(outcome, logger, call, error, data)),
                      ![c].settles = IF LogThrows(logger, fault) THEN @
                                     ELSE Append(@, ReadSettle(outcome, data))]
    /\ UNCHANGED <<POOL, clients, adapters>>

-----------------------------------------------------------------------------
\* set({ key, value, maxage, context })

\* A set without the early return.
SetNeverSkips(value) == FALSE

\* The early return of set: typeof value === 'undefined'.
SetSkips(value) == Tag(value) = "undefined"

\* A maxage that is the configured default whatever the caller passes.
MaxAgeAlwaysDefault(options, maxage) == Prop(options, "defaultKeyTTL")

\* The default of the maxage parameter.
MaxAge(options, maxage) ==
    IF Tag(maxage) = "undefined" THEN Prop(options, "defaultKeyTTL") ELSE maxage

\* A catch block without its return: set goes on to the transport.
AlwaysIssuesStore(json) == TRUE

\* Whether set goes on to the transport after JSON.stringify: not when it threw.
IssuesStore(json) == ~json.threw

\* fault: logger.log throws on the start event; fault2: it throws on the
\* JSON_STRINGIFY_FAILED event.
Set(a, key, value, maxage, fault, fault2) ==
    /\ Len(calls) < MaxCalls
    /\ a \in Constructed
    /\ MayThrow(adapters[a]._logger, fault \/ fault2)
    /\ (fault => ~SetSkips(value) /\ ~fault2)
    /\ (fault2 => ~SetSkips(value) /\ JSONstringify(value).threw)
    /\ LET ad == adapters[a]
           logger == ad._logger
           c == Len(calls) + 1
           nk == normalizeKey(ad._options, key)
           ttl == MaxAge(ad._options, maxage)
           json == JSONstringify(value)
           start == Event(EVENT.MEMCACHED_WRITE_START, logger, key, nk,
                          Undefined, Undefined, Undefined)
           failed == Event(EVENT.MEMCACHED_JSON_STRINGIFY_FAILED, logger, key, nk,
                           value, json.value, Undefined)
           timer == IF HasDeadline("set") THEN "armed" ELSE "none"
       IN IF SetSkips(value)
          THEN /\ calls' = Append(calls, Call("set", a, key, value, ttl, FALSE, "none",
                                              <<>>, <<>>))
               /\ UNCHANGED transport
          ELSE IF LogThrows(logger, fault)
          THEN \* the executor throws: the promise is rejected with the exception
               /\ calls' = Append(calls, Call("set", a, key, value, ttl, TRUE, "none",
                                              <<Reject(LoggerException)>>, <<start>>))
               /\ UNCHANGED transport
          ELSE /\ calls' = Append(calls, Call("set", a, key, value, ttl, TRUE,
                       IF IssuesStore(json) THEN timer ELSE "none",
                       IF json.threw
                       THEN IF LogThrows(logger, fault2)
                            THEN <<Reject(LoggerException)>>
                            ELSE <<Reject(DeError(EVENT.MEMCACHED_JSON_STRINGIFY_FAILED))>>
                       ELSE <<>>,
                       IF json.threw THEN <<start, failed>> ELSE <<start>>))
               /\ transport' = IF IssuesStore(json)
                               THEN Append(transport,
                                        Request(ad._client, c, "set", nk, json.value, ttl))
                               ELSE transport
    /\ UNCHANGED <<POOL, clients, adapters>>

\* A store callback that takes a write that was not acknowledged as done.
WriteOutcomeNoFailed(error, done) ==
    IF Truthy(error) THEN EVENT.MEMCACHED_WRITE_ERROR
    ELSE EVENT.MEMCACHED_WRITE_DONE

\* The outcome of the transport's answer to a store, by the event it is logged as.
WriteOutcome(error, done) ==
    IF Truthy(error) THEN EVENT.MEMCACHED_WRITE_ERROR
    ELSE IF ~Truthy(done) THEN EVENT.MEMCACHED_WRITE_FAILED
    ELSE EVENT.MEMCACHED_WRITE_DONE

WriteSettle(outcome) ==
    IF outcome = EVENT.MEMCACHED_WRITE_DONE THEN Resolve(Undefined)
    ELSE Reject(DeError(outcome))

\* The transport client calls the callback of a store with (error, done).
SetCallback(c, error, done, fault) ==
    /\ c \in 1..Len(calls)
    /\ Pending(c, "set") # {}
    /\ MayThrow(adapters[calls[c].adapter]._logger, fault)
    /\ LET call == calls[c]
           logger == adapters[call.adapter]._logger
           r == CHOOSE r \in Pending(c, "set") : TRUE
           outcome == WriteOutcome(error, done)
       IN /\ transport' = Complete(r)
          /\ calls' = [calls EXCEPT
                 ![c].events = Append(@, Event(outcome, logger, call.key,
                        call.normalizedKey,
                        IF outcome = EVENT.MEMCACHED_WRITE_DONE THEN transport[r].value
                        ELSE Undefined,
                        IF outcome = EVENT.MEMCACHED_WRITE_ERROR THEN error ELSE Undefined,
                        Undefined)),
                 ![c].settles = IF LogThrows(logger, fault) THEN @
                                ELSE Append(@, WriteSettle(outcome))]
    /\ UNCHANGED <<POOL, clients, adapters>>

-----------------------------------------------------------------------------
\* The specifications

\* The steps of the calls. Each takes, besides its inputs, whether the call
\* of logger.log it makes throws.
CallStep ==
    \/ \E a \in 1..MaxAdapters, key \in Keys, fault \in BOOLEAN : Get(a, key, fault)
    \/ \E c \in 1..MaxCalls, fault \in BOOLEAN : Timeout(c, fault)
    \/ \E c \in 1..MaxCalls, error \in TransportErrors, data \in TransportData,
          fault \in BOOLEAN :
           GetCallback(c, error, data, fault)
    \/ \E a \in 1..MaxAdapters, key \in Keys, value \in Values, maxage \in MaxAges,
          fault \in BOOLEAN, fault2 \in BOOLEAN :
           Set(a, key, value, maxage, fault, fault2)
    \/ \E c \in 1..MaxCalls, error \in TransportErrors, done \in TransportDone,
          fault \in BOOLEAN :
           SetCallback(c, error, done, fault)

\* With a logging collaborator that is absent or returns.
Next ==
    \/ \E options \in OptionArguments, logger \in Loggers :
           Construct(options, logger, FALSE)
    \/ CallStep

Spec == Init /\ [][Next]_vars

\* With any logging collaborator, one whose log throws included, and one
\* configuration.
FaultOptions == {Options(<< <<"servers", "h1">>, <<"generation", 1>> >>), Undefined}
NextAnyLogger ==
    \/ \E options \in FaultOptions, logger \in AnyLoggers, fault \in BOOLEAN :
           Construct(options, logger, fault)
    \/ CallStep

SpecAnyLogger == Init /\ [][NextAnyLogger]_vars

\* With a configuration that sets defaultKeyTTL and one that leaves it to the
\* default.
TTLOptions ==
    {Options(<< <<"servers", "h1">>, <<"defaultKeyTTL", 600>> >>),
     Options(<< <<"servers", "h1">> >>)}
NextTTL ==
    \/ \E options \in TTLOptions, logger \in Loggers :
           Construct(options, logger, FALSE)
    \/ CallStep

SpecTTL == Init /\ [][NextTTL]_vars

\* The event loop runs a timer that is due: an armed deadline fires unless it
\* is cleared first.
FairSpec ==
    SpecAnyLogger /\ \A c \in 1..MaxCalls : WF_vars(\E fault \in BOOLEAN : Timeout(c, fault))

-----------------------------------------------------------------------------
\* Properties

Gets == {c \in 1..Len(calls) : calls[c].op = "get"}
Sets == {c \in 1..Len(calls) : calls[c].op = "set"}

Types(events) == [i \in 1..Len(events) |-> events[i].type]
IsReadTerminal(e) ==
    e.type \in {"MEMCACHED_READ_DONE", "MEMCACHED_READ_ERROR", "MEMCACHED_READ_KEY_NOT_FOUND",
                "MEMCACHED_READ_TIMEOUT", "MEMCACHED_JSON_PARSING_FAILED"}
IsWriteTerminal(e) ==
    e.type \in {"MEMCACHED_WRITE_DONE", "MEMCACHED_WRITE_ERROR", "MEMCACHED_WRITE_FAILED"}
ReadTerminals(c) == SelectSeq(calls[c].events, IsReadTerminal)
WriteTerminals(c) == SelectSeq(calls[c].events, IsWriteTerminal)

\* The requests a call issued, and whether its only request was answered.
RequestsOf(c) == {r \in 1..Len(transport) : transport[r].call = c}
Answered(c) == \E r \in RequestsOf(c) : transport[r].done

Failure(id) == [kind |-> "reject", value |-> Obj(<< <<"id", Str(id)>> >>)]

\* C1: in every get call, whatever the order of its deadline timer and its
\* transport callback, resolve/reject is called at most once and at most one
\* terminal read event is handed to _log.
C1_GetSettlesAtMostOnce ==
    \A c \in Gets : Len(calls[c].settles) <= 1 /\ Len(ReadTerminals(c)) <= 1

\* Both competitors of one get have run: the timer fired and the transport answered.
C1_Witness ==
    \E c \in Gets : /\ calls[c].timer = "fired" /\ Answered(c)
                    /\ Len(calls[c].settles) = 1 /\ Len(ReadTerminals(c)) = 1

\* C2: once the deadline of a get has fired (the transport had not answered),
\* the call is rejected with READ_TIMEOUT and READ_TIMEOUT is its one event
\* after the start event; this stays so when the transport answers later,
\* whatever it answers.
C2_TimeoutWins ==
    \A c \in Gets :
        calls[c].timer = "fired" =>
            /\ calls[c].settles = <<Failure("MEMCACHED_READ_TIMEOUT")>>
            /\ Types(calls[c].events) = <<"MEMCACHED_READ_START", "MEMCACHED_READ_TIMEOUT">>

\* The deadline fired and the transport answered after it.
C2_Witness ==
    \E c \in Gets : /\ calls[c].timer = "fired" /\ Answered(c)
                    /\ calls[c].settles = <<Failure("MEMCACHED_READ_TIMEOUT")>>

\* The outcome the precedence of the specification gives a response.
ExpectedRead(error, data) ==
    IF error # Undefined THEN "MEMCACHED_READ_ERROR"
    ELSE IF data \in {Undefined, Str("")} THEN "MEMCACHED_READ_KEY_NOT_FOUND"
    ELSE IF data = Str("not-json") THEN "MEMCACHED_JSON_PARSING_FAILED"
    ELSE "MEMCACHED_READ_DONE"

\* C3: a transport response that arrives while the deadline is armed decides
\* the call: READ_ERROR on an error (with or without data), else
\* READ_KEY_NOT_FOUND on empty or absent data, else JSON_PARSING_FAILED on
\* data that does not parse, else success with the parsed value; the event
\* added has the type of that outcome.
C3_ReadPrecedence ==
    [][\A c \in 1..MaxCalls, error \in TransportErrors, data \in TransportData :
         (GetCallback(c, error, data, FALSE) /\ calls[c].timer = "armed") =>
            LET outcome == ExpectedRead(error, data) IN
            /\ Types(calls'[c].events) = <<"MEMCACHED_READ_START", outcome>>
            /\ calls'[c].settles =
                  IF outcome = "MEMCACHED_READ_DONE"
                  THEN <<[kind |-> "resolve", value |-> Obj(<< <<"a", Num(1)>> >>)]>>
                  ELSE <<Failure(outcome)>>]_vars

\* A get answered in time with valid data has resolved with the parsed value.
C3_Witness ==
    \E c \in Gets :
        /\ calls[c].timer = "cleared"
        /\ calls[c].settles = <<[kind |-> "resolve", value |-> Obj(<< <<"a", Num(1)>> >>)]>>
        /\ Types(calls[c].events) = <<"MEMCACHED_READ_START", "MEMCACHED_READ_DONE">>

\* C4: every get call eventually settles, whatever the transport and the
\* logging collaborator do, given that an armed deadline eventually fires.
Settled(c) == c \in 1..Len(calls) /\ calls[c].settles # <<>>
C4_GetEventuallySettles ==
    \A c \in 1..MaxCalls : [](c \in Gets => <>Settled(c))

\* Structural (deep) equality of two values: the same properties with equal
\* values, whatever the order they were set in.
RECURSIVE DeepEqual(_, _)
DeepEqual(a, b) ==
    IF Tag(a) # Tag(b) THEN FALSE
    ELSE IF Tag(a) = "object"
    THEN /\ Names(a) = Names(b)
         /\ \A n \in Names(a) : DeepEqual(Prop(a, n), Prop(b, n))
    ELSE a = b

\* C5: adapters constructed with deep-equal options hold the same client, and
\* adapters whose options differ in servers hold different clients.
C5_PoolIdentity ==
    \A a, b \in Constructed :
        /\ DeepEqual(adapters[a].options, adapters[b].options)
              => adapters[a]._client = adapters[b]._client
        /\ ~DeepEqual(Prop(adapters[a].options, "servers"),
                      Prop(adapters[b].options, "servers"))
              => adapters[a]._client # adapters[b]._client

\* C6: the twelve event types are pairwise distinct, and the start event of a
\* set is not of the type of the start event of a get.
C6_EventTypesDistinct ==
    /\ \A c \in Sets : calls[c].events # <<>> =>
           /\ calls[c].events[1].type = "MEMCACHED_WRITE_START"
           /\ calls[c].events[1].type # EVENT.MEMCACHED_READ_START
    /\ \A m, n \in EventNames : m # n => EVENT[m] # EVENT[n]

\* C7: a set whose value is undefined returns no promise, hands no event to
\* _log and issues no transport request, whatever the key and the ttl.
C7_UndefinedSetDoesNothing ==
    \A c \in Sets :
        calls[c].value = Undefined =>
            /\ ~calls[c].promise
            /\ calls[c].events = <<>>
            /\ calls[c].settles = <<>>
            /\ RequestsOf(c) = {}

\* A set of undefined was made, after an adapter was constructed.
C7_Witness ==
    \E c \in Sets : calls[c].value = Undefined /\ calls[c].adapter \in Constructed

\* C8: a set whose value cannot be serialized (a circular structure) hands
\* JSON_STRINGIFY_FAILED to _log, is rejected with JSON_STRINGIFY_FAILED and
\* issues no transport request.
C8_StringifyFailure ==
    \A c \in Sets :
        calls[c].value = Circular =>
            /\ calls[c].events[Len(calls[c].events)].type = "MEMCACHED_JSON_STRINGIFY_FAILED"
            /\ calls[c].settles = <<Failure("MEMCACHED_JSON_STRINGIFY_FAILED")>>
            /\ RequestsOf(c) = {}

\* A set of a circular structure was made and rejected.
C8_Witness ==
    \E c \in Sets : calls[c].value = Circular /\ calls[c].promise
                    /\ calls[c].settles # <<>>

\* The outcome the precedence of the specification gives a store's answer.
ExpectedWrite(error, done) ==
    IF error # Undefined THEN "MEMCACHED_WRITE_ERROR"
    ELSE IF done # Bool(TRUE) THEN "MEMCACHED_WRITE_FAILED"
    ELSE "MEMCACHED_WRITE_DONE"

\* C9: the answer to a store decides the set: WRITE_ERROR on an error, else
\* WRITE_FAILED when the write was not acknowledged, else success with
\* WRITE_DONE carrying the JSON text of the value; a set whose store was
\* answered has exactly one terminal write event.
C9_WritePrecedence ==
    /\ [](\A c \in Sets : Answered(c) => Len(WriteTerminals(c)) = 1)
    /\ [][\A c \in 1..MaxCalls, error \in TransportErrors, done \in TransportDone :
            SetCallback(c, error, done, FALSE) =>
               LET outcome == ExpectedWrite(error, done)
                   event == calls'[c].events[Len(calls'[c].events)]
               IN /\ Len(calls'[c].events) = Len(calls[c].events) + 1
                  /\ event.type = outcome
                  /\ calls'[c].settles =
                        IF outcome = "MEMCACHED_WRITE_DONE"
                        THEN <<[kind |-> "resolve", value |-> Undefined]>>
                        ELSE <<Failure(outcome)>>
                  /\ (outcome = "MEMCACHED_WRITE_DONE"
                        /\ calls[c].value = Obj(<< <<"a", Num(1)>> >>))
                       => event.data = Str("{\"a\":1}")]_vars

\* An acknowledged store: the set resolved and WRITE_DONE carries the JSON text.
C9_Witness ==
    \E c \in Sets :
        /\ Answered(c)
        /\ calls[c].settles = <<[kind |-> "resolve", value |-> Undefined]>>
        /\ calls[c].events[Len(calls[c].events)].type = "MEMCACHED_WRITE_DONE"
        /\ calls[c].events[Len(calls[c].events)].data = Str("{\"a\":1}")

\* C10: a set that issued its store has no deadline: as long as the transport
\* has not answered the store, the set is not settled and has no event but
\* its start event, whatever else happens meanwhile.
C10_SetHasNoDeadline ==
    \A c \in Sets :
        (RequestsOf(c) # {} /\ ~Answered(c)) =>
            /\ calls[c].settles = <<>>
            /\ calls[c].timer = "none"
            /\ Len(calls[c].events) = 1
            /\ WriteTerminals(c) = <<>>

\* A store is still unanswered after the deadline of a later get has fired.
C10_Witness ==
    \E c \in Sets, d \in Gets :
        /\ c < d /\ calls[d].timer = "fired"
        /\ RequestsOf(c) # {} /\ ~Answered(c) /\ calls[c].settles = <<>>

\* The calls, the rejections of a call, and the events of a call of one type.
Calls == 1..Len(calls)
Rejections(c) == {i \in 1..Len(calls[c].settles) : calls[c].settles[i].kind = "reject"}
EventsOfType(c, type) == {i \in 1..Len(calls[c].events) : calls[c].events[i].type = type}

\* C11: a get or set that is rejected with the failure of some id has handed
\* exactly one event of that type to _log, which went to the logger when the
\* adapter has one: in no state is the failure there without its event.
C11_FailureHasItsEvent ==
    \A c \in Calls : \A i \in Rejections(c) :
        LET id == Prop(calls[c].settles[i].value, "id") IN
        /\ Tag(id) = "string"
        /\ Cardinality(EventsOfType(c, id[2])) = 1
        /\ \A e \in EventsOfType(c, id[2]) :
              calls[c].events[e].delivered
                 = (adapters[calls[c].adapter]._logger = "returns")

\* A get on an adapter with a logger was rejected as not found, and a set as
\* not acknowledged.
C11_Witness ==
    \E c \in Gets, d \in Sets :
        /\ adapters[calls[c].adapter]._logger = "returns"
        /\ calls[c].settles = <<Failure("MEMCACHED_READ_KEY_NOT_FOUND")>>
        /\ calls[d].settles = <<Failure("MEMCACHED_WRITE_FAILED")>>

\* What a call was handed to _log, whether or not a logger was there to take
\* it, and the requests it issued.
EventView(e) ==
    [type |-> e.type, key |-> e.key, normalizedKey |-> e.normalizedKey,
     data |-> e.data, error |-> e.error]
EventViews(c) == [i \in 1..Len(calls[c].events) |-> EventView(calls[c].events[i])]
RequestViews(c) ==
    {[op |-> transport[r].op, key |-> transport[r].key, value |-> transport[r].value,
      ttl |-> transport[r].ttl] : r \in RequestsOf(c)}

\* C12: the logger does not decide anything: two calls with the same
\* arguments that went the same way (the same events were handed to _log, to
\* whatever logger or none) have the same resolve/reject calls and issued the
\* same transport requests.
C12_EventsAreObservational ==
    \A c, d \in Calls :
        (/\ calls[c].op = calls[d].op /\ calls[c].key = calls[d].key
         /\ calls[c].value = calls[d].value /\ calls[c].maxage = calls[d].maxage
         /\ EventViews(c) = EventViews(d))
        => /\ calls[c].settles = calls[d].settles
           /\ RequestViews(c) = RequestViews(d)

\* The constructions whose configuration names no servers: no configuration
\* at all, or one without a servers field.
LacksServers(a) ==
    \/ Tag(adapters[a].options) # "object"
    \/ Prop(adapters[a].options, "servers") = Undefined

\* C13: a construction whose configuration lacks the server addresses throws
\* and leaves no usable adapter.
C13_MissingServersFailsFast ==
    \A a \in 1..Len(adapters) : LacksServers(a) => adapters[a].threw

\* The generation an adapter works under: the configured one, or the default.
Generation(a) == Prop(adapters[a]._options, "generation")

\* C14: the transport key is a function of the generation and the logical key
\* only. Every request of a call carries the call's normalized key; two calls
\* with the same logical key under the same generation address the same
\* transport key, get or set, whatever the rest of the configuration; under
\* different integer generations they address different transport keys.
C14_KeyIsGenerationAndKey ==
    \A c, d \in Calls :
        LET gc == Generation(calls[c].adapter)
            gd == Generation(calls[d].adapter)
        IN /\ \A r \in RequestsOf(c) : transport[r].key = calls[c].normalizedKey
           /\ calls[c].normalizedKey =
                  normalizeKey(Obj(<< <<"generation", gc>> >>), calls[c].key)
           /\ (gc = gd /\ calls[c].key = calls[d].key)
                  => calls[c].normalizedKey = calls[d].normalizedKey
           /\ (Tag(gc) = "number" /\ Tag(gd) = "number" /\ gc # gd)
                  => calls[c].normalizedKey # calls[d].normalizedKey
C14_Witness ==
    \E d \in Sets, c \in Gets :
        /\ Generation(calls[d].adapter) # Generation(calls[c].adapter)
        /\ calls[d].key = calls[c].key
        /\ calls[d].settles = <<Resolve(Undefined)>>
        /\ \E r \in RequestsOf(d), s \in RequestsOf(c) :
              /\ r < s
              /\ transport[r].done
              /\ transport[r].key # transport[s].key

\* The text JSON.stringify gives for the values a caller stores here that it
\* can serialize: an object, and a function, for which it gives undefined.
SerializedText(value) ==
    IF value = Obj(<< <<"a", Num(1)>> >>) THEN Str("{\"a\":1}") ELSE Undefined
Serializable(value) == value \in {Obj(<< <<"a", Num(1)>> >>), Fn}

\* The ttl a store is to carry: the caller's when given, else the
\* configuration's defaultKeyTTL, else 86400.
ExpectedTTL(a, maxage) ==
    IF maxage # Undefined THEN maxage
    ELSE IF Prop(adapters[a].options, "defaultKeyTTL") # Undefined
         THEN Prop(adapters[a].options, "defaultKeyTTL")
         ELSE Num(86400)

\* C15: a set whose value passes serialization issues exactly one store, on
\* the adapter's client, with the normalized key, the serialized value and
\* the ttl: the caller's when given, else the configured defaultKeyTTL, else
\* 86400.
C15_StoreArguments ==
    [][\A a \in 1..MaxAdapters, key \in Keys, value \in Values, maxage \in MaxAges :
          (Set(a, key, value, maxage, FALSE, FALSE) /\ Serializable(value))
          => transport' = Append(transport,
                 [client |-> adapters[a]._client, call |-> Len(calls) + 1,
                  op |-> "set",
                  key |-> Str("sha512(g1:user:42)"),
                  value |-> SerializedText(value),
                  ttl |-> ExpectedTTL(a, maxage), done |-> FALSE])]_vars
C15_Witness ==
    \E c, d \in Sets : \E r \in RequestsOf(c), s \in RequestsOf(d) :
        /\ calls[c].adapter = calls[d].adapter
        /\ Prop(adapters[calls[c].adapter].options, "defaultKeyTTL") = Num(600)
        /\ transport[r].value = Str("{\"a\":1}")
        /\ transport[r].ttl = Num(600)
        /\ transport[s].ttl = Num(30)

\* The constructions that created and registered a transport client: those
\* handed a configuration object that no earlier construction was handed,
\* property for property in the same order.
CreatesClient(a) ==
    /\ Tag(adapters[a].options) = "object"
    /\ \A b \in 1..(a - 1) : adapters[b].options # adapters[a].options
Initialized == {a \in 1..Len(adapters) : adapters[a].events # <<>>}

\* C16: a construction logs MEMCACHED_INITIALIZED, once, exactly when it
\* creates and registers a client, which is once per configuration
\* fingerprint: there are as many such events as clients and as POOL entries.
\* A construction that finds its entry takes the client of that entry and
\* logs nothing. No step changes or removes a POOL entry or a client, and a
\* step of a get or a set leaves POOL and the clients as they are.
C16_InitializedOncePerClient ==
    /\ [](/\ \A a \in 1..Len(adapters) :
                Types(adapters[a].events) =
                    IF CreatesClient(a) THEN <<"MEMCACHED_INITIALIZED">> ELSE <<>>
          /\ Cardinality(Initialized) = Len(clients)
          /\ Cardinality(DOMAIN POOL) = Len(clients)
          /\ \A a, b \in Constructed :
                adapters[a].options = adapters[b].options
                => adapters[a]._client = adapters[b]._client)
    /\ [][/\ \A k \in DOMAIN POOL : k \in DOMAIN POOL' /\ POOL'[k] = POOL[k]
          /\ \A i \in 1..Len(clients) : Len(clients') >= i /\ clients'[i] = clients[i]
          /\ (calls' # calls \/ transport' # transport)
             => POOL' = POOL /\ clients' = clients]_vars
C16_Witness ==
    /\ Len(adapters) = 2
    /\ Tag(adapters[1].options) = "object"
    /\ adapters[2].options = adapters[1].options
    /\ adapters[2].events = <<>>
    /\ adapters[2]._client = adapters[1]._client
    /\ Cardinality(DOMAIN POOL) = 1
    /\ \E c \in Calls : calls[c].adapter = 2 /\ calls[c].settles # <<>>

\* C17: no retries and no cancellation. Every get has issued exactly one
\* fetch and every set at most one store (one when its value was serialized,
\* none otherwise), whatever came of it. A request is issued only by the
\* invocation of its call; no step removes or alters a request other than by
\* completing it, and a completed request stays completed. The firing of a
\* deadline leaves the transport as it is: the fetch stays in flight and may
\* complete afterwards.
C17_NoRetryNoCancel ==
    /\ [](/\ \A c \in Gets :
                /\ Cardinality(RequestsOf(c)) = 1
                /\ \A r \in RequestsOf(c) : transport[r].op = "get"
          /\ \A c \in Sets :
                /\ Cardinality(RequestsOf(c)) = IF Serializable(calls[c].value) THEN 1 ELSE 0
                /\ \A r \in RequestsOf(c) : transport[r].op = "set")
    /\ [][/\ \A r \in 1..Len(transport) :
                /\ Len(transport') >= r
                /\ [transport'[r] EXCEPT !.done = FALSE] = [transport[r] EXCEPT !.done = FALSE]
                /\ transport[r].done => transport'[r].done
          /\ Len(transport') > Len(transport)
             => /\ Len(transport') = Len(transport) + 1
                /\ Len(calls') = Len(calls) + 1
                /\ transport'[Len(transport')].call = Len(calls')
          /\ \A c \in 1..MaxCalls : Timeout(c, FALSE) => transport' = transport]_vars
C17_Witness ==
    \E c \in Gets, d \in Sets :
        /\ Types(calls[c].events) = <<"MEMCACHED_READ_START", "MEMCACHED_READ_TIMEOUT">>
        /\ Cardinality(RequestsOf(c)) = 1 /\ Answered(c)
        /\ calls[d].settles = <<Failure("MEMCACHED_WRITE_ERROR")>>
        /\ Cardinality(RequestsOf(d)) = 1 /\ Len(transport) = 2

\* The gets the transport answered before the deadline: answered, with the
\* event after the start event not READ_TIMEOUT.
AnsweredInTime(c) ==
    /\ c \in Gets
    /\ Answered(c)
    /\ Len(calls[c].events) >= 2
    /\ calls[c].events[2].type # "MEMCACHED_READ_TIMEOUT"

\* C18: a get the transport answered before its deadline has its deadline
\* cleared, no READ_TIMEOUT event and the one result the response gave it;
\* and from then on no step changes anything of the call.
C18_AnswerDisarmsDeadline ==
    /\ [](\A c \in Calls :
             AnsweredInTime(c)
             => /\ calls[c].timer = "cleared"
                /\ EventsOfType(c, "MEMCACHED_READ_TIMEOUT") = {}
                /\ Len(calls[c].events) = 2
                /\ Len(calls[c].settles) = 1
                /\ calls[c].settles[1] # Failure("MEMCACHED_READ_TIMEOUT"))
    /\ [][\A c \in Calls : AnsweredInTime(c) => calls'[c] = calls[c]]_vars
C18_Witness ==
    /\ Len(calls) = 2
    /\ AnsweredInTime(1)
    /\ calls[1].timer = "cleared"
    /\ calls[1].settles = <<Failure("MEMCACHED_READ_ERROR")>>
    /\ calls[2].op = "get" /\ calls[2].timer = "fired"

\* C19: concurrent gets are independent, on one pooled client and one key
\* too. Each call has its own deadline and its own isTimeout flag, set exactly
\* when its own deadline fired. A step changes one call at most; the firing of
\* the deadline of a call changes no other call; and a response that comes to
\* a call while its own deadline is armed clears that deadline and settles
\* the call by the response, whatever became of the other calls.
C19_GetsAreIndependent ==
    /\ [](\A c \in Gets : calls[c].isTimeout <=> calls[c].timer = "fired")
    /\ [][/\ \A c, d \in Calls :
                (c # d /\ calls'[c] # calls[c]) => calls'[d] = calls[d]
          /\ \A c \in 1..MaxCalls :
                Timeout(c, FALSE) => \A d \in Calls \ {c} : calls'[d] = calls[d]
          /\ \A d \in 1..MaxCalls, error \in TransportErrors, data \in TransportData :
                (GetCallback(d, error, data, FALSE) /\ calls[d].timer = "armed")
                => /\ calls'[d].timer = "cleared"
                   /\ Len(calls'[d].settles) = 1
                   /\ Len(calls'[d].events) = 2
                   /\ calls'[d].events[2].type = ExpectedRead(error, data)]_vars
C19_Witness ==
    /\ Len(calls) = 2
    /\ calls[1].op = "get" /\ calls[2].op = "get"
    /\ calls[1].key = calls[2].key
    /\ calls[1].adapter # calls[2].adapter
    /\ adapters[calls[1].adapter]._client = adapters[calls[2].adapter]._client
    /\ calls[1].timer = "fired" /\ ~Answered(1)
    /\ calls[1].settles = <<Failure("MEMCACHED_READ_TIMEOUT")>>
    /\ calls[2].timer = "cleared"
    /\ calls[2].settles = <<Resolve(Obj(<< <<"a", Num(1)>> >>))>>

====
